---- MODULE Spec2Model ----
(***************************************************************************)
(* mementoizer: the pipeline of mementoize() in src/mementoizer/__init__.py *)
(* as a state machine.  One run of mementoize is one behaviour: the cuts    *)
(* are acquired (supplied or detected), filtered (skip_start, skip_end,     *)
(* min_scene_length), printed, and - unless dry_run - the video is opened,  *)
(* split into scenes, interleaved outside-in, black-and-white filtered,     *)
(* given its transition clip, concatenated with spacers and written.        *)
(*                                                                          *)
(* Timestamps are seconds; the model draws them from the naturals, which    *)
(* keeps every comparison the code makes (>=, <=, +) exact.  A clip is the  *)
(* sequence of layers it is composed of (a plain subclip has one layer, a   *)
(* CompositeVideoClip has one per composed clip); each layer records the    *)
(* scene it shows, its bounds in the source, whether the blackwhite filter  *)
(* was applied to it and which part of the scene it is.  Fades change       *)
(* pixels only and are not part of a layer.                                 *)
(***************************************************************************)
EXTENDS Integers, Sequences, FiniteSets, TLC

VARIABLES
    pc,                 \* position in mementoize
    cutsArg,            \* parameter cuts (<<>> stands for None or [])
    ffmpeg_pts,         \* the pts_time values ffmpeg reports for the file
    skip_start,         \* parameter skip_start
    skip_end,           \* parameter skip_end
    min_scene_length,   \* parameter min_scene_length
    verbose,            \* parameter verbose
    dry_run,            \* parameter dry_run
    cuts,               \* local variable cuts
    out,                \* what was printed, in order
    opened,             \* VideoFileClip(filename) was constructed
    clips,              \* local variable clips
    first_half,         \* local variable first_half
    second_half,        \* local variable second_half
    clip_order,         \* local variable clip_order
    final_clip_order,   \* local variable final_clip_order
    written,            \* write_videofile was called
    returned            \* the return value, "None" until a filename is returned

vars == <<pc, cutsArg, ffmpeg_pts, skip_start, skip_end, min_scene_length,
          verbose, dry_run, cuts, out, opened, clips, first_half, second_half,
          clip_order, final_clip_order, written, returned>>

params == <<cutsArg, ffmpeg_pts, skip_start, skip_end, min_scene_length,
            verbose, dry_run>>

----------------------------------------------------------------------------
(* Bounds of the model *)

MaxTime == 3

MaxCuts == 3

MaxParam == 2

MaxScenes == 5

(* Default of the parameter overlap *)
overlap == 4

----------------------------------------------------------------------------
(* Inputs *)

RECURSIVE SetToSeq(_)
SetToSeq(S) ==
    IF S = {} THEN <<>>
    ELSE LET m == CHOOSE x \in S : \A y \in S : y <= x
         IN  Append(SetToSeq(S \ {m}), m)

\* cut sequences in any order, with duplicates, with or without 0, as a
\* caller may pass them in cuts
ShortSeqs == UNION {[1..n -> 0..MaxTime] : n \in 0..MaxCuts}

\* longer cut sequences, strictly increasing, as ffmpeg emits pts_time values
IncreasingSeqs == {SetToSeq(S) : S \in SUBSET (0..MaxScenes)}

CutInputs == ShortSeqs \cup IncreasingSeqs

\* the end of the source video, past every cut
VideoEnd == MaxTime + MaxScenes + overlap + 1

----------------------------------------------------------------------------
(* Pure helpers *)

Last(s) == s[Len(s)]

ButLast(s) == SubSeq(s, 1, Len(s) - 1)

\* the cuts the filters work on: the cuts argument if truthy, else detect_cuts
InputCuts == IF cutsArg # <<>> THEN cutsArg ELSE ffmpeg_pts

SkipStartKeepsMut(cut, s) == cut > s

SkipStartKeeps(cut, s) == cut >= s

SkipStartFilter(cs, s) ==
    IF s # 0 THEN SelectSeq(cs, LAMBDA cut : SkipStartKeeps(cut, s)) ELSE cs

SkipEndKeeps(cut, s) == cut <= s

SkipEndFilter(cs, s) ==
    IF s # 0 THEN SelectSeq(cs, LAMBDA cut : SkipEndKeeps(cut, s)) ELSE cs

AcceptsMut(new_cuts, L, cut) == Last(new_cuts) + L >= cut

Accepts(new_cuts, L, cut) == Last(new_cuts) + L <= cut

RECURSIVE MinSceneLoop(_, _, _)
MinSceneLoop(new_cuts, cs, L) ==
    IF cs = <<>> THEN new_cuts
    ELSE MinSceneLoop(IF Accepts(new_cuts, L, Head(cs))
                         THEN Append(new_cuts, Head(cs))
                         ELSE new_cuts,
                      Tail(cs), L)

MinSceneFilter(cs, L) == IF L # 0 THEN MinSceneLoop(<<0>>, cs, L) ELSE cs

\* clip.subclip(timestamps[i], timestamps[i + 1] + overlap), or to the end
Subclip(timestamps, i) ==
    << [scene   |-> i,
        t_start |-> timestamps[i],
        t_end   |-> IF i < Len(timestamps) THEN timestamps[i + 1] + overlap
                                           ELSE VideoEnd,
        bw      |-> FALSE,
        part    |-> "whole"] >>

split_scenes(timestamps) ==
    [i \in 1..Len(timestamps) |-> Subclip(timestamps, i)]

blackwhite(clip) == [k \in 1..Len(clip) |-> [clip[k] EXCEPT !.bw = TRUE]]

FirstHalf(cl) == SubSeq(cl, 1, Len(cl) \div 2)

SecondHalf(cl) == SubSeq(cl, Len(cl) \div 2 + 1, Len(cl))

bw_filterShort(order) ==
    [i \in 1..Len(order) |->
        IF (i - 1) < Len(order) - 1 /\ (i - 1) % 2 = 1
           THEN blackwhite(order[i]) ELSE order[i]]

bw_filterEven(order) ==
    [i \in 1..Len(order) |->
        IF (i - 1) < Len(order) - 2 /\ (i - 1) % 2 = 0
           THEN blackwhite(order[i]) ELSE order[i]]

\* for i in range(len(clip_order) - 2): if i % 2 == 1: blackwhite
bw_filter(order) ==
    [i \in 1..Len(order) |->
        IF (i - 1) < Len(order) - 2 /\ (i - 1) % 2 = 1
           THEN blackwhite(order[i]) ELSE order[i]]

\* the two halves of last_clip, the first in black and white
SplitClip(last_clip) ==
    blackwhite([k \in 1..Len(last_clip) |->
                   [last_clip[k] EXCEPT !.part = "first"]])
    \o [k \in 1..Len(last_clip) |-> [last_clip[k] EXCEPT !.part = "second"]]

TransitionEven(order) == [order EXCEPT ![Len(order)] = SplitClip(Last(order))]

TransitionOdd(order) ==
    ButLast([order EXCEPT ![Len(order) - 1] =
                blackwhite(order[Len(order) - 1]) \o Last(order)])

spacer ==
    << [scene |-> 0, t_start |-> 0, t_end |-> 0, bw |-> FALSE,
        part |-> "spacer"] >>

\* [item for pair in zip(clip_order, itertools.repeat(spacer)) for item in pair]
ZipSpacer(order) ==
    [i \in 1..(2 * Len(order)) |->
        IF i % 2 = 1 THEN order[(i + 1) \div 2] ELSE spacer]

TakeFromSecondMut(s) == Head(s)

\* second_half.pop() returns the last element
TakeFromSecond(s) == Last(s)

RunsPipelineMut == TRUE

RunsPipeline == ~dry_run

----------------------------------------------------------------------------
(* The state machine *)

Init ==
    /\ pc = "start"
    /\ cutsArg \in CutInputs
    /\ ffmpeg_pts \in (IF cutsArg = <<>> THEN IncreasingSeqs ELSE {<<>>})
    /\ skip_start \in 0..MaxParam
    /\ skip_end \in 0..MaxParam
    /\ min_scene_length \in 0..MaxParam
    /\ verbose \in BOOLEAN
    /\ dry_run \in BOOLEAN
    /\ cuts = cutsArg
    /\ out = <<>>
    /\ opened = FALSE
    /\ clips = <<>>
    /\ first_half = <<>>
    /\ second_half = <<>>
    /\ clip_order = <<>>
    /\ final_clip_order = <<>>
    /\ written = FALSE
    /\ returned = "None"

\* lines 60-65: no cuts given, detect them
DetectCuts ==
    /\ pc = "start"
    /\ cuts = <<>>
    /\ cuts' = ffmpeg_pts
    /\ out' = IF verbose \/ dry_run
                 THEN Append(out, [label |-> "cuts detected at",
                                   value |-> ffmpeg_pts])
                 ELSE out
    /\ pc' = "skip_start"
    /\ UNCHANGED <<params, opened, clips, first_half, second_half, clip_order,
                   final_clip_order, written, returned>>

\* line 60: cuts given, used as they are
UseGivenCuts ==
    /\ pc = "start"
    /\ cuts # <<>>
    /\ pc' = "skip_start"
    /\ UNCHANGED <<params, cuts, out, opened, clips, first_half, second_half,
                   clip_order, final_clip_order, written, returned>>

\* lines 67-68
SkipStart ==
    /\ pc = "skip_start"
    /\ cuts' = SkipStartFilter(cuts, skip_start)
    /\ pc' = "skip_end"
    /\ UNCHANGED <<params, out, opened, clips, first_half, second_half,
                   clip_order, final_clip_order, written, returned>>

\* lines 69-70
SkipEnd ==
    /\ pc = "skip_end"
    /\ cuts' = SkipEndFilter(cuts, skip_end)
    /\ pc' = "min_scene"
    /\ UNCHANGED <<params, out, opened, clips, first_half, second_half,
                   clip_order, final_clip_order, written, returned>>

\* lines 72-78
MinSceneLength ==
    /\ pc = "min_scene"
    /\ cuts' = MinSceneFilter(cuts, min_scene_length)
    /\ pc' = "print"
    /\ UNCHANGED <<params, out, opened, clips, first_half, second_half,
                   clip_order, final_clip_order, written, returned>>

\* lines 80-82
PrintFinal ==
    /\ pc = "print"
    /\ out' = IF verbose \/ dry_run
                 THEN Append(out, [label |-> "final cuts at:", value |-> cuts])
                 ELSE out
    /\ pc' = "branch"
    /\ UNCHANGED <<params, cuts, opened, clips, first_half, second_half,
                   clip_order, final_clip_order, written, returned>>

\* line 84 false: the function falls off its end and returns None
DryRunReturn ==
    /\ pc = "branch"
    /\ dry_run
    /\ pc' = "done"
    /\ UNCHANGED <<params, cuts, out, opened, clips, first_half, second_half,
                   clip_order, final_clip_order, written, returned>>

\* lines 84-90
OpenAndSplit ==
    /\ pc = "branch"
    /\ RunsPipeline
    /\ opened' = TRUE
    /\ clips' = split_scenes(cuts)
    /\ first_half' = FirstHalf(clips')
    /\ second_half' = SecondHalf(clips')
    /\ clip_order' = <<>>
    /\ pc' = "interleave"
    /\ UNCHANGED <<params, cuts, out, final_clip_order, written, returned>>

\* lines 91-100: one iteration of the while loop
InterleaveStep ==
    /\ pc = "interleave"
    /\ Len(first_half) > 0 \/ Len(second_half) > 0
    /\ LET popped == Len(second_half) > 0
           taken  == Len(first_half) > 0
           order1 == IF popped THEN Append(clip_order, TakeFromSecond(second_half))
                               ELSE clip_order
       IN  /\ second_half' = IF popped THEN ButLast(second_half) ELSE second_half
           /\ clip_order' = IF taken THEN Append(order1, Head(first_half))
                                     ELSE order1
           /\ first_half' = IF taken THEN Tail(first_half) ELSE first_half
    /\ UNCHANGED <<pc, params, cuts, out, opened, clips, final_clip_order,
                   written, returned>>

\* line 91: the loop condition is false
InterleaveDone ==
    /\ pc = "interleave"
    /\ Len(first_half) = 0
    /\ Len(second_half) = 0
    /\ pc' = "bw_filter"
    /\ UNCHANGED <<params, cuts, out, opened, clips, first_half, second_half,
                   clip_order, final_clip_order, written, returned>>

\* lines 102-105
BwFilter ==
    /\ pc = "bw_filter"
    /\ clip_order' = bw_filter(clip_order)
    /\ pc' = "transition"
    /\ UNCHANGED <<params, cuts, out, opened, clips, first_half, second_half,
                   final_clip_order, written, returned>>

\* lines 108-114, with a last clip to split
TransitionInLastClip ==
    /\ pc = "transition"
    /\ Len(clip_order) % 2 = 0
    /\ Len(clip_order) >= 1
    /\ clip_order' = TransitionEven(clip_order)
    /\ pc' = "concat"
    /\ UNCHANGED <<params, cuts, out, opened, clips, first_half, second_half,
                   final_clip_order, written, returned>>

\* lines 116-120, with two last clips to merge
TransitionBetweenLastTwo ==
    /\ pc = "transition"
    /\ Len(clip_order) % 2 = 1
    /\ Len(clip_order) >= 2
    /\ clip_order' = TransitionOdd(clip_order)
    /\ pc' = "concat"
    /\ UNCHANGED <<params, cuts, out, opened, clips, first_half, second_half,
                   final_clip_order, written, returned>>

\* line 109 on an empty list, line 117 on a list of one: IndexError, uncaught
TransitionIndexError ==
    /\ pc = "transition"
    /\ \/ Len(clip_order) % 2 = 0 /\ Len(clip_order) < 1
       \/ Len(clip_order) % 2 = 1 /\ Len(clip_order) < 2
    /\ pc' = "IndexError"
    /\ UNCHANGED <<params, cuts, out, opened, clips, first_half, second_half,
                   clip_order, final_clip_order, written, returned>>

\* lines 122-129
WriteOutput ==
    /\ pc = "concat"
    /\ final_clip_order' = ZipSpacer(clip_order)
    /\ written' = TRUE
    /\ returned' = "output_filename"
    /\ pc' = "done"
    /\ UNCHANGED <<params, cuts, out, opened, clips, first_half, second_half,
                   clip_order>>

Next ==
    \/ DetectCuts
    \/ UseGivenCuts
    \/ SkipStart
    \/ SkipEnd
    \/ MinSceneLength
    \/ PrintFinal
    \/ DryRunReturn
    \/ OpenAndSplit
    \/ InterleaveStep
    \/ InterleaveDone
    \/ BwFilter
    \/ TransitionInLastClip
    \/ TransitionBetweenLastTwo
    \/ TransitionIndexError
    \/ WriteOutput

Spec == Init /\ [][Next]_vars

----------------------------------------------------------------------------
(* Properties *)

StrictlyIncreasing(s) == \A i \in 1..(Len(s) - 1) : s[i] < s[i + 1]

\* C1: with min_scene_length L > 0, whatever the input cuts (any order,
\* duplicates, with or without 0), the list the minimum-scene-length filter
\* yields starts with 0, is strictly increasing, and every two adjacent
\* elements differ by at least L.
C1_MinSceneSpacing ==
    (pc = "print" /\ min_scene_length > 0) =>
        /\ Len(cuts) >= 1
        /\ cuts[1] = 0
        /\ \A i \in 1..(Len(cuts) - 1) :
              /\ cuts[i] < cuts[i + 1]
              /\ cuts[i + 1] - cuts[i] >= min_scene_length

C1_Witness ==
    /\ pc = "print"
    /\ min_scene_length > 0
    /\ Len(cuts) >= 3
    /\ ~StrictlyIncreasing(InputCuts)

\* C2: the minimum-scene-length filter is idempotent: filtering the list it
\* produced again, with the same L > 0, returns that list unchanged.
C2_Idempotent ==
    (pc = "print" /\ min_scene_length > 0) =>
        MinSceneFilter(cuts, min_scene_length) = cuts

C2_Witness ==
    /\ pc = "print"
    /\ min_scene_length > 0
    /\ Len(cuts) >= 3
    /\ Len(cuts) <= Len(InputCuts)
    /\ MinSceneFilter(cuts, min_scene_length) = cuts

SceneOrder == [i \in 1..Len(clip_order) |-> clip_order[i][1].scene]

\* C3: when the interleaving loop ends, clip_order is a permutation of the N
\* clips, of length N, in outside-in order: position 2k holds clips[N-1-k] and
\* position 2k+1 holds clips[k] (0-based); six clips give F,A,E,B,D,C and five
\* give E,A,D,B,C.  The loop ends: every iteration that does not leave the
\* loop makes the two halves together shorter.
C3_OutsideIn ==
    /\ [](pc = "bw_filter" =>
            LET N == Len(clips) IN
            /\ first_half = <<>>
            /\ second_half = <<>>
            /\ Len(clip_order) = N
            /\ \A j \in 1..N :
                  Cardinality({i \in 1..N : clip_order[i] = clips[j]}) = 1
            /\ \A k \in 0..(N - 1) :
                  /\ 2 * k <= N - 1 => clip_order[2 * k + 1] = clips[N - k]
                  /\ 2 * k + 1 <= N - 1 => clip_order[2 * k + 2] = clips[k + 1]
            /\ N = 6 => SceneOrder = <<6, 1, 5, 2, 4, 3>>
            /\ N = 5 => SceneOrder = <<5, 1, 4, 2, 3>>)
    /\ [][pc = "interleave" =>
             \/ pc' = "bw_filter"
             \/ Len(first_half') + Len(second_half')
                   < Len(first_half) + Len(second_half)]_vars

C3_Witness ==
    /\ pc = "bw_filter"
    /\ Len(clips) >= 5
    /\ Len(clips) % 2 = 1
    /\ Len(clip_order) = Len(clips)

\* C4: the transition step makes an odd-length clip_order exactly one element
\* shorter and leaves the length of an even-length clip_order unchanged.
C4_LengthByParity ==
    [][pc = "transition" =>
          /\ pc' = "concat"
          /\ Len(clip_order') = IF Len(clip_order) % 2 = 1
                                   THEN Len(clip_order) - 1
                                   ELSE Len(clip_order)]_vars

\* C5: with no cuts detected or supplied and dry_run false, the run yields a
\* single-segment video: with min_scene_length > 0 the final cut list is <<0>>
\* and one clip is produced, and in either case the pipeline goes through the
\* transition, the concatenation and the write without raising an error.
C5_NoCutsRunCompletes ==
    (InputCuts = <<>> /\ ~dry_run) =>
        /\ (pc = "print" /\ min_scene_length > 0) => cuts = <<0>>
        /\ (pc = "interleave" /\ min_scene_length > 0) => Len(clips) = 1
        /\ pc # "IndexError"

C7_AlwaysSorted == pc = "print" => StrictlyIncreasing(cuts)

\* C7 amended: after the filtering steps the cut list is sorted ascending and
\* free of duplicates when min_scene_length > 0, or when min_scene_length = 0
\* and the input cut sequence is itself strictly increasing.
C7_SortedWhenFilteredOrSortedInput ==
    (/\ pc = "print"
     /\ \/ min_scene_length > 0
        \/ min_scene_length = 0 /\ StrictlyIncreasing(InputCuts)) =>
        StrictlyIncreasing(cuts)

C7_Witness ==
    /\ pc = "print"
    /\ min_scene_length > 0
    /\ Len(cuts) >= 2
    /\ \E i \in 1..(Len(InputCuts) - 1) : InputCuts[i] = InputCuts[i + 1]

C9_BwPositions ==
    [][(pc = "bw_filter" /\ pc' = "transition") =>
          LET M == Len(clip_order) IN
          /\ Len(clip_order') = M
          /\ \A i \in 0..(M - 1) :
                IF i % 2 = 1 /\ i < M - 2
                   THEN /\ Len(clip_order'[i + 1]) = Len(clip_order[i + 1])
                        /\ \A k \in 1..Len(clip_order[i + 1]) :
                              /\ ~clip_order[i + 1][k].bw
                              /\ clip_order'[i + 1][k] =
                                    [clip_order[i + 1][k] EXCEPT !.bw = TRUE]
                   ELSE clip_order'[i + 1] = clip_order[i + 1]]_vars

C9_Witness ==
    /\ pc = "transition"
    /\ Len(clip_order) = 6
    /\ clip_order[2][1].bw
    /\ clip_order[4][1].bw
    /\ ~clip_order[6][1].bw
    /\ ~clip_order[5][1].bw

LayersOf(s) ==
    {clip_order[i][k] : <<i, k>> \in
        {x \in (1..Len(clip_order)) \X (1..2) :
            /\ x[2] <= Len(clip_order[x[1]])
            /\ clip_order[x[1]][x[2]].scene = s}}

\* C10: for N >= 2 clips, after the marking loop and the transition step a
\* source clip is shown in black and white (fully, or for its first half when
\* it is the split last clip of an even-length order) if and only if it is in
\* clips[:N//2]; every clip of clips[N//2:] is entirely in colour.
C10_FirstHalfBw ==
    (pc \in {"concat", "done"} /\ Len(clips) >= 2) =>
        LET N == Len(clips) IN
        \A s \in 1..N :
            /\ LayersOf(s) # {}
            /\ s > N \div 2 => \A l \in LayersOf(s) : ~l.bw /\ l.part = "whole"
            /\ s <= N \div 2 =>
                  \/ \A l \in LayersOf(s) : l.bw /\ l.part = "whole"
                  \/ /\ N % 2 = 0
                     /\ Last(clip_order)[1].scene = s
                     /\ LayersOf(s) = {Last(clip_order)[1], Last(clip_order)[2]}
                     /\ Last(clip_order)[1].bw
                     /\ Last(clip_order)[1].part = "first"
                     /\ ~Last(clip_order)[2].bw
                     /\ Last(clip_order)[2].part = "second"

C10_Witness ==
    /\ pc = "done"
    /\ written
    /\ Len(clips) = 6
    /\ Len(clip_order) = 6
====
